---- MODULE Spec2Model ----
(***************************************************************************)
(* CloudBot web utilities (cloudbot/util/web.py) and the pagecheck plugin  *)
(* (plugins/pagecheck.py): registries of URL shorteners and pastebins, the *)
(* public dispatch functions, the backends' response interpretation, the   *)
(* paste fallback loop, and the two up/down probes.                        *)
(*                                                                         *)
(* The remote services are the environment: every outbound request gets a  *)
(* nondeterministically chosen transport outcome (a connection failure or  *)
(* an HTTP response).  A call's result is either a returned value or the   *)
(* exception that reaches the caller.                                      *)
(***************************************************************************)
EXTENDS Integers, Sequences, FiniteSets, TLC

VARIABLES shorteners, pastebins, pc, call, impl, bins, world, attempts, http, ret

vars == <<shorteners, pastebins, pc, call, impl, bins, world, attempts, http, ret>>

-----------------------------------------------------------------------------
(* Bounds of the model *)

\* URLs handed to expand are concatenations of at most MaxFrags fragments.
MaxFrags == 2

-----------------------------------------------------------------------------
(* Strings *)

\* Python's `t in s` on strings
Contains(s, t) ==
    \E i \in 1..(Len(s) - Len(t) + 1) : SubSeq(s, i, i + Len(t) - 1) = t

\* s[i:] (1-based i)
From(s, i) == SubSeq(s, i, Len(s))

\* s.find(t) as a 1-based index, 0 when absent
Find(s, t) ==
    LET hits == {i \in 1..(Len(s) - Len(t) + 1) : SubSeq(s, i, i + Len(t) - 1) = t}
    IN  IF hits = {} THEN 0 ELSE CHOOSE i \in hits : \A k \in hits : i <= k

\* index of the first character of s that is in the set cs, Len(s)+1 when none
FirstOf(s, cs) ==
    LET hits == {i \in 1..Len(s) : SubSeq(s, i, i) \in cs}
    IN  IF hits = {} THEN Len(s) + 1 ELSE CHOOSE i \in hits : \A k \in hits : i <= k

RECURSIVE Concat(_)
Concat(ss) == IF ss = <<>> THEN "" ELSE Head(ss) \o Concat(Tail(ss))

-----------------------------------------------------------------------------
(* Constants of web.py *)

DEFAULT_SHORTENER == "is.gd"
DEFAULT_PASTEBIN == "hastebin"
HASTEBIN_SERVER == "https://hastebin.com"
codes_ok == 200
codes_created == 201

None == "None"

-----------------------------------------------------------------------------
(* Results and transport outcomes *)

Return(v) == [kind |-> "return", exc |-> "", value |-> v]
Raise(e, m) == [kind |-> "raise", exc |-> e, value |-> m]
ServiceError(m) == Raise("ServiceError", m)

ConnectionError == [conn |-> FALSE]
Response(s, reason, loc, body) ==
    [conn |-> TRUE, status |-> s, reason |-> reason, location |-> loc, body |-> body]

\* requests.Response.raise_for_status raises HTTPError for 4xx and 5xx
RaisesForStatus(r) == r.status >= 400 /\ r.status < 600

\* A response body: its text, and the object r.json() yields (if it parses)
Text(txt) == [json |-> FALSE, text |-> txt]
Json(obj) == [json |-> TRUE, text |-> "{}", obj |-> obj]

\* r.json(): ValueError when the body is not JSON
\* j[k]: KeyError when the key is absent
Has(j, k) == k \in DOMAIN j

-----------------------------------------------------------------------------
(* Shortener backends: one operator per method, applied to the arguments   *)
(* and to the transport outcome t of the single request the method issues. *)

\* Shortener.shorten
Shortener_shorten(url, custom, key, t) == Return(url)

\* Shortener.expand
Shortener_expand(url, t) ==
    IF ~t.conn THEN Raise("ConnectionError", "")
    ELSE IF RaisesForStatus(t) THEN ServiceError(t.reason)
    ELSE IF t.location # None THEN Return(t.location)
    ELSE ServiceError("That URL does not exist")

\* Isgd.shorten
Isgd_shorten(url, custom, key, t) ==
    IF ~t.conn THEN Raise("ConnectionError", "")
    ELSE IF RaisesForStatus(t) THEN ServiceError(t.reason)
    ELSE IF ~t.body.json THEN Raise("ValueError", "")
    ELSE LET j == t.body.obj IN
         IF Has(j, "shorturl") THEN Return(j.shorturl)
         ELSE IF Has(j, "errormessage") THEN ServiceError(j.errormessage)
         ELSE Raise("KeyError", "errormessage")

\* Isgd.expand
Isgd_expand(url, t) ==
    IF ~t.conn THEN Raise("ConnectionError", "")
    ELSE IF RaisesForStatus(t) THEN ServiceError(t.reason)
    ELSE IF ~t.body.json THEN Raise("ValueError", "")
    ELSE LET j == t.body.obj IN
         IF Has(j, "url") THEN Return(j.url)
         ELSE IF Has(j, "errormessage") THEN ServiceError(j.errormessage)
         ELSE Raise("KeyError", "errormessage")

\* Googl.shorten
Googl_shorten(url, custom, key, t) ==
    IF ~t.conn THEN Raise("ConnectionError", "")
    ELSE IF RaisesForStatus(t) THEN ServiceError(t.reason)
    ELSE IF ~t.body.json THEN Raise("ValueError", "")
    ELSE LET j == t.body.obj IN
         IF ~Has(j, "error")
         THEN IF Has(j, "id") THEN Return(j.id) ELSE Raise("KeyError", "id")
         ELSE IF Has(j.error, "message") THEN ServiceError(j.error.message)
         ELSE Raise("KeyError", "message")

\* Googl.expand
Googl_expand(url, t) ==
    IF ~t.conn THEN Raise("ConnectionError", "")
    ELSE IF RaisesForStatus(t) THEN ServiceError(t.reason)
    ELSE IF ~t.body.json THEN Raise("ValueError", "")
    ELSE LET j == t.body.obj IN
         IF ~Has(j, "error")
         THEN IF Has(j, "longUrl") THEN Return(j.longUrl)
              ELSE Raise("KeyError", "longUrl")
         ELSE IF Has(j.error, "message") THEN ServiceError(j.error.message)
         ELSE Raise("KeyError", "message")

\* Python truthiness of an optional string argument
Truthy(s) == s # None /\ s # ""

\* the test with its `not` dropped
CustomMissing_Inverted(custom, s) == Truthy(custom) /\ Contains(s, custom)

\* the `custom and custom not in s` test of Gitio.shorten
CustomMissing(custom, s) == Truthy(custom) /\ ~Contains(s, custom)

\* Gitio.shorten
Gitio_shorten(url, custom, key, t) ==
    IF ~t.conn THEN Raise("ConnectionError", "")
    ELSE IF RaisesForStatus(t) THEN ServiceError(t.reason)
    ELSE IF t.status = codes_created
         THEN IF t.location = None THEN Raise("KeyError", "location")
              ELSE IF CustomMissing(custom, t.location)
                   THEN ServiceError("That URL is already in use")
              ELSE Return(t.location)
    ELSE ServiceError(t.body.text)

\* Method resolution: which implementation a class's method name denotes.
\* Gitio defines no expand and inherits Shortener.expand.
ShortenMethod(cls) ==
    CASE cls = "Isgd" -> "Isgd.shorten"
      [] cls = "Googl" -> "Googl.shorten"
      [] cls = "Gitio" -> "Gitio.shorten"
      [] OTHER -> "Shortener.shorten"

ExpandMethod(cls) ==
    CASE cls = "Isgd" -> "Isgd.expand"
      [] cls = "Googl" -> "Googl.expand"
      [] OTHER -> "Shortener.expand"

\* impl.shorten(url, custom, key)
ShortenOf(cls, url, custom, key, t) ==
    CASE ShortenMethod(cls) = "Isgd.shorten" -> Isgd_shorten(url, custom, key, t)
      [] ShortenMethod(cls) = "Googl.shorten" -> Googl_shorten(url, custom, key, t)
      [] ShortenMethod(cls) = "Gitio.shorten" -> Gitio_shorten(url, custom, key, t)
      [] OTHER -> Shortener_shorten(url, custom, key, t)

\* try_shorten without its except clause
Shortener_try_shorten_NoCatch(cls, url, custom, key, t) ==
    ShortenOf(cls, url, custom, key, t)

\* Shortener.try_shorten (inherited by every backend)
Shortener_try_shorten(cls, url, custom, key, t) ==
    LET r == ShortenOf(cls, url, custom, key, t) IN
    IF r.kind = "raise" /\ r.exc = "ServiceError" THEN Return(url) ELSE r

\* impl.expand(url)
ExpandOf(cls, url, t) ==
    CASE ExpandMethod(cls) = "Isgd.expand" -> Isgd_expand(url, t)
      [] ExpandMethod(cls) = "Googl.expand" -> Googl_expand(url, t)
      [] OTHER -> Shortener_expand(url, t)

\* The request each method issues
ShortenEndpoint(cls, url) ==
    CASE ShortenMethod(cls) = "Isgd.shorten" -> "GET http://is.gd/create.php"
      [] ShortenMethod(cls) = "Googl.shorten" ->
            "POST https://www.googleapis.com/urlshortener/v1/url"
      [] ShortenMethod(cls) = "Gitio.shorten" -> "POST http://git.io"
      [] OTHER -> ""

ExpandEndpoint(cls, url) ==
    CASE ExpandMethod(cls) = "Isgd.expand" -> "GET http://is.gd/forward.php"
      [] ExpandMethod(cls) = "Googl.expand" ->
            "GET https://www.googleapis.com/urlshortener/v1/url"
      [] OTHER -> "GET " \o url

-----------------------------------------------------------------------------
(* Pastebin backends *)

\* Pastebin.paste
Pastebin_paste(data, ext, t) == Raise("NotImplementedError", "")

\* Hastebin.paste
Hastebin_paste(data, ext, t) ==
    IF ~t.conn THEN Raise("ConnectionError", "")
    ELSE IF RaisesForStatus(t) THEN ServiceError(t.reason)
    ELSE IF ~t.body.json THEN Raise("ValueError", "")
    ELSE LET j == t.body.obj IN
         IF t.status = codes_ok
         THEN IF Has(j, "key")
              THEN Return(HASTEBIN_SERVER \o "/" \o j.key \o "." \o ext)
              ELSE Raise("KeyError", "key")
         ELSE IF Has(j, "message") THEN ServiceError(j.message)
         ELSE Raise("KeyError", "message")

\* impl.paste(data, ext)
PasteOf(cls, data, ext, t) ==
    IF cls = "Hastebin" THEN Hastebin_paste(data, ext, t)
    ELSE Pastebin_paste(data, ext, t)

-----------------------------------------------------------------------------
(* pagecheck.py *)

SchemeChars ==
    {"a","b","c","d","e","f","g","h","i","j","k","l","m","n","o","p","q","r",
     "s","t","u","v","w","x","y","z","0","1","2","3","4","5","6","7","8","9",
     "+","-","."}

\* str.strip() (spaces)
RECURSIVE Strip(_)
Strip(s) ==
    IF s = "" THEN s
    ELSE IF SubSeq(s, 1, 1) = " " THEN Strip(From(s, 2))
    ELSE IF SubSeq(s, Len(s), Len(s)) = " " THEN Strip(SubSeq(s, 1, Len(s) - 1))
    ELSE s

\* urllib.parse.urlsplit(url): scheme, netloc (authority) and path
urlsplit(url) ==
    LET i == Find(url, ":")
        isScheme == /\ i > 1
                    /\ \A k \in 1..(i - 1) : SubSeq(url, k, k) \in SchemeChars
        scheme == IF isScheme THEN SubSeq(url, 1, i - 1) ELSE ""
        rest == IF isScheme THEN From(url, i + 1) ELSE url
        hasAuth == Len(rest) >= 2 /\ SubSeq(rest, 1, 2) = "//"
        afterSlashes == From(rest, 3)
        d == FirstOf(afterSlashes, {"/", "?", "#"})
        netloc == IF hasAuth THEN SubSeq(afterSlashes, 1, d - 1) ELSE ""
        tail == IF hasAuth THEN From(afterSlashes, d) ELSE rest
        path == SubSeq(tail, 1, FirstOf(tail, {"?", "#"}) - 1)
    IN  [scheme |-> scheme, netloc |-> netloc, path |-> path]

\* the address the direct probe requests
downTarget(text) ==
    LET t1 == IF ~Contains(text, "://") THEN "http://" \o text ELSE text
    IN  "http://" \o urlsplit(t1).netloc

\* down(text), given the transport outcome t of requests.get
down(text, t) ==
    LET target == downTarget(text) IN
    IF ~t.conn THEN Return(target \o " seems to be down")
    ELSE IF RaisesForStatus(t) THEN Raise("HTTPError", t.reason)
    ELSE Return(target \o " seems to be up")

\* the domain the aggregator probe asks about: auth or path
isupDomain(text) ==
    LET u == urlsplit(Strip(text)) IN
    IF u.netloc # "" THEN u.netloc ELSE u.path

\* soup.find('div', id="domain-main-content"): None when the page has no such div
Page(content) == [json |-> FALSE, text |-> "<div>" \o content \o "</div>", div |-> content]
FindDiv(body) == IF Has(body, "div") THEN body.div ELSE None

\* isup(text), given the transport outcome t of requests.get (the IRC
\* formatting codes of the two verdict strings are left out)
isup(text, t) ==
    LET url == Strip(text) IN
    IF ~t.conn THEN Return("Failed to get status.")
    ELSE IF RaisesForStatus(t) THEN Raise("HTTPError", t.reason)
    ELSE IF t.status # codes_ok THEN Return("Failed to get status.")
    ELSE IF FindDiv(t.body) = None THEN Raise("AttributeError", "text")
    ELSE LET content == Strip(FindDiv(t.body)) IN
         IF Contains(content, "not just you")
         THEN Return("It's not just you. " \o url \o " looks down from here!")
         ELSE IF Contains(content, "is up")
         THEN Return("It's just you. " \o url \o " is up.")
         ELSE Return("Huh? That doesn't look like a site on the interweb.")

-----------------------------------------------------------------------------
(* Registries: Python dicts, kept as sequences of entries in insertion     *)
(* order (iteration follows insertion order, popitem removes the entry     *)
(* inserted last).                                                         *)

Entry(name, cls) == [name |-> name, cls |-> cls]
NoImpl == Entry(None, None)

Names(reg) == {reg[i].name : i \in 1..Len(reg)}

\* position of name in reg, 0 when absent
IndexOf(reg, name) ==
    IF name \in Names(reg) THEN CHOOSE i \in 1..Len(reg) : reg[i].name = name ELSE 0

\* reg[name] = cls(): a new key is appended, an existing key keeps its place
Register(reg, name, cls) ==
    IF name \in Names(reg)
    THEN [reg EXCEPT ![IndexOf(reg, name)] = Entry(name, cls)]
    ELSE Append(reg, Entry(name, cls))

\* reg without the entry at position i
Without(reg, i) == SubSeq(reg, 1, i - 1) \o SubSeq(reg, i + 1, Len(reg))

\* the scan of expand without its break: the last match stays selected
FirstMatch_NoBreak(reg, url) ==
    LET hits == {i \in 1..Len(reg) : Contains(url, reg[i].name)}
    IN  IF hits = {} THEN 0 ELSE CHOOSE i \in hits : \A k \in hits : i >= k

\* the scan of expand: the first registered name, in iteration order, that
\* is a substring of url; 0 when there is none
FirstMatch(reg, url) ==
    LET hits == {i \in 1..Len(reg) : Contains(url, reg[i].name)}
    IN  IF hits = {} THEN 0 ELSE CHOOSE i \in hits : \A k \in hits : i <= k

\* dict.popitem(): the entry it removes (the last one inserted)
PopItem(reg) == Len(reg)

\* reg.get(name) in place of reg.pop(name, None): nothing is removed
PopRest_Get(reg, name) == reg

\* a lookup that falls back to the last entry when the name is absent
PopValue_Fallback(reg, name) ==
    IF IndexOf(reg, name) = 0 THEN reg[Len(reg)] ELSE reg[IndexOf(reg, name)]

\* reg.pop(name, None): the value it returns ...
PopValue(reg, name) ==
    IF IndexOf(reg, name) = 0 THEN NoImpl ELSE reg[IndexOf(reg, name)]

\* ... and what it leaves in reg
PopRest(reg, name) ==
    IF IndexOf(reg, name) = 0 THEN reg ELSE Without(reg, IndexOf(reg, name))

-----------------------------------------------------------------------------
(* Inputs *)

LongUrls == {"http://example.com", "http://example.com/a?b=c"}
Customs == {None, "", "abc"}
Keys == {None, "KEY"}
ShortenServices == {DEFAULT_SHORTENER, "goo.gl", "git.io", "gd", "bit.ly"}
ExpandServices == {None, "", "goo.gl", "bit.ly"}

PluginShorteners == {Entry("gd", "Shortener"), Entry("gd", "Isgd")}
PluginPastebins ==
    {Entry(n, c) : n \in {"sprunge", "ptpb"}, c \in {"Hastebin", "Pastebin"}}

Fragments == {"is.gd", "goo.gl", "git.io", "t.co/"}

RECURSIVE FragSeqs(_)
FragSeqs(n) ==
    IF n = 0 THEN {<<>>}
    ELSE FragSeqs(n - 1) \cup
         {Append(q, f) : q \in {x \in FragSeqs(n - 1) : Len(x) = n - 1}, f \in Fragments}

ShortUrls == {"http://" \o Concat(q) : q \in FragSeqs(MaxFrags) \ {<<>>}}

ShortenerTransports ==
    { ConnectionError,
      Response(200, "OK", None, Json([shorturl |-> "http://is.gd/abc"])),
      Response(200, "OK", None, Json([url |-> "http://example.com"])),
      Response(200, "OK", None, Json([errormessage |-> "Please specify a URL"])),
      Response(200, "OK", None,
               Json([id |-> "http://goo.gl/abc", longUrl |-> "http://example.com"])),
      Response(200, "OK", None, Json([error |-> [message |-> "Rate limit exceeded"]])),
      Response(200, "OK", None, Json([kind |-> "urlshortener#url"])),
      Response(200, "OK", None, Text("<html>")),
      Response(201, "Created", "http://git.io/abc", Text("")),
      Response(201, "Created", "http://git.io/zzz", Text("")),
      Response(201, "Created", None, Text("")),
      Response(301, "Moved Permanently", "http://example.com", Text("")),
      Response(404, "Not Found", None, Text("Not Found")),
      Response(502, "Bad Gateway", None, Json([errormessage |-> "down"])) }

PasteData == {"print(1)"}
PasteExts == {"txt", "py"}
PasteServices == {DEFAULT_PASTEBIN, "sprunge", "ptpb", "nopaste"}
PasteTransports ==
    { ConnectionError,
      Response(200, "OK", None, Json([key |-> "abc"])),
      Response(201, "Created", None, Json([message |-> "Document exceeds maximum length."])),
      Response(503, "Service Unavailable", None, Text("")) }

PageTexts == {"example.com", " example.com/down ", "https://example.com/a?b",
              "http://is.gd:80"}
PageTransports ==
    { ConnectionError,
      Response(200, "OK", None, Page(" It's not just you! example.com looks down. ")),
      Response(200, "OK", None, Page("It's just you. example.com is up.")),
      Response(200, "OK", None, Page("Huh?")),
      Response(200, "OK", None, Text("<html>")),
      Response(204, "No Content", None, Text("")),
      Response(404, "Not Found", None, Text("Not Found")),
      Response(500, "Internal Server Error", None, Page("example.com is up.")) }

NoExchange == [endpoint |-> "", t |-> ConnectionError]
Exchange(endpoint, t) == [endpoint |-> endpoint, t |-> t]
Pending == [kind |-> "pending", exc |-> "", value |-> ""]
NoWorld == [n \in {} |-> ConnectionError]
NoCall == [op |-> "none"]

-----------------------------------------------------------------------------
(* The state machine *)

\* the state after the module is loaded (the decorators at lines 144-237 ran)
Init ==
    /\ shorteners = <<Entry("is.gd", "Isgd"), Entry("goo.gl", "Googl"),
                      Entry("git.io", "Gitio")>>
    /\ pastebins = <<Entry("hastebin", "Hastebin")>>
    /\ pc = "idle"
    /\ call = NoCall
    /\ impl = NoImpl
    /\ bins = <<>>
    /\ world = NoWorld
    /\ attempts = <<>>
    /\ http = NoExchange
    /\ ret = Pending

\* the result reaches the caller and the call's locals are gone
CallReturns ==
    /\ pc = "done"
    /\ pc' = "idle"
    /\ call' = NoCall
    /\ impl' = NoImpl
    /\ bins' = <<>>
    /\ world' = NoWorld
    /\ attempts' = <<>>
    /\ http' = NoExchange
    /\ ret' = Pending
    /\ UNCHANGED <<shorteners, pastebins>>

\* @_shortener(name) applied to a class
RegisterShortener ==
    /\ pc = "idle"
    /\ \E e \in PluginShorteners :
         /\ shorteners' = Register(shorteners, e.name, e.cls)
         /\ call' = [op |-> "_shortener", name |-> e.name]
    /\ ret' = Return(None)
    /\ pc' = "done"
    /\ UNCHANGED <<pastebins, impl, bins, world, attempts, http>>

\* @_pastebin(name) applied to a class
RegisterPastebin ==
    /\ pc = "idle"
    /\ \E e \in PluginPastebins :
         /\ pastebins' = Register(pastebins, e.name, e.cls)
         /\ call' = [op |-> "_pastebin", name |-> e.name]
    /\ ret' = Return(None)
    /\ pc' = "done"
    /\ UNCHANGED <<shorteners, impl, bins, world, attempts, http>>

\* shorten(url, custom, key, service)
Shorten ==
    /\ pc = "idle"
    /\ \E url \in LongUrls, custom \in Customs, key \in Keys,
          service \in ShortenServices, t \in ShortenerTransports :
         LET i == IndexOf(shorteners, service) IN
         /\ call' = [op |-> "shorten", url |-> url, custom |-> custom,
                     key |-> key, service |-> service]
         /\ IF i = 0
            THEN /\ impl' = NoImpl
                 /\ http' = NoExchange
                 /\ ret' = Raise("KeyError", service)
            ELSE /\ impl' = shorteners[i]
                 /\ http' = Exchange(ShortenEndpoint(shorteners[i].cls, url), t)
                 /\ ret' = ShortenOf(shorteners[i].cls, url, custom, key, t)
    /\ pc' = "done"
    /\ UNCHANGED <<shorteners, pastebins, bins, world, attempts>>

\* try_shorten(url, custom, key, service)
TryShorten ==
    /\ pc = "idle"
    /\ \E url \in LongUrls, custom \in Customs, key \in Keys,
          service \in ShortenServices, t \in ShortenerTransports :
         LET i == IndexOf(shorteners, service) IN
         /\ call' = [op |-> "try_shorten", url |-> url, custom |-> custom,
                     key |-> key, service |-> service]
         /\ IF i = 0
            THEN /\ impl' = NoImpl
                 /\ http' = NoExchange
                 /\ ret' = Raise("KeyError", service)
            ELSE /\ impl' = shorteners[i]
                 /\ http' = Exchange(ShortenEndpoint(shorteners[i].cls, url), t)
                 /\ ret' = Shortener_try_shorten(shorteners[i].cls, url, custom, key, t)
    /\ pc' = "done"
    /\ UNCHANGED <<shorteners, pastebins, bins, world, attempts>>

\* expand falling back to the default shortener instead of Shortener()
ExpandImpl_DefaultOnMiss(reg, url, service) ==
    IF Truthy(service)
    THEN IF IndexOf(reg, service) = 0 THEN NoImpl ELSE reg[IndexOf(reg, service)]
    ELSE IF FirstMatch(reg, url) = 0 THEN reg[IndexOf(reg, DEFAULT_SHORTENER)]
         ELSE reg[FirstMatch(reg, url)]

\* the backend expand(url, service) selects: a registry entry, the fresh
\* Shortener() (an entry without a name), or NoImpl when the lookup fails
ExpandImpl(reg, url, service) ==
    IF Truthy(service)
    THEN IF IndexOf(reg, service) = 0 THEN NoImpl ELSE reg[IndexOf(reg, service)]
    ELSE IF FirstMatch(reg, url) = 0 THEN Entry(None, "Shortener")
         ELSE reg[FirstMatch(reg, url)]

\* expand(url, service)
Expand ==
    /\ pc = "idle"
    /\ \E url \in ShortUrls, service \in ExpandServices, t \in ShortenerTransports :
         LET e == ExpandImpl(shorteners, url, service) IN
         /\ call' = [op |-> "expand", url |-> url, service |-> service]
         /\ impl' = e
         /\ IF e = NoImpl
            THEN /\ http' = NoExchange
                 /\ ret' = Raise("KeyError", service)
            ELSE /\ http' = Exchange(ExpandEndpoint(e.cls, url), t)
                 /\ ret' = ExpandOf(e.cls, url, t)
    /\ pc' = "done"
    /\ UNCHANGED <<shorteners, pastebins, bins, world, attempts>>

\* paste(data, ext, service), up to the loop: bins = pastebins.copy();
\* impl = bins.pop(service, None).  world fixes, for this call, the transport
\* outcome each registered backend's request would meet.
PasteCall ==
    /\ pc = "idle"
    /\ \E data \in PasteData, ext \in PasteExts, service \in PasteServices,
          w \in [Names(pastebins) -> PasteTransports] :
         /\ call' = [op |-> "paste", data |-> data, ext |-> ext, service |-> service]
         /\ world' = w
         /\ bins' = PopRest(pastebins, service)
         /\ impl' = PopValue(pastebins, service)
    /\ pc' = "paste"
    /\ UNCHANGED <<shorteners, pastebins, attempts, http, ret>>

\* one iteration of `while impl:`: try impl.paste; a result returns, a
\* ServiceError is logged and the next backend is popped, any other
\* exception leaves paste
PasteAttempt ==
    /\ pc = "paste"
    /\ impl # NoImpl
    /\ LET r == PasteOf(impl.cls, call.data, call.ext, world[impl.name]) IN
       /\ attempts' = Append(attempts, [name |-> impl.name, result |-> r])
       /\ IF r.kind = "raise" /\ r.exc = "ServiceError"
          THEN /\ IF bins = <<>>
                  THEN impl' = NoImpl /\ bins' = bins
                  ELSE /\ impl' = bins[PopItem(bins)]
                       /\ bins' = Without(bins, PopItem(bins))
               /\ UNCHANGED <<pc, ret>>
          ELSE /\ ret' = r
               /\ pc' = "done"
               /\ UNCHANGED <<impl, bins>>
    /\ UNCHANGED <<shorteners, pastebins, call, world, http>>

\* the loop is left with impl falsy: return "Unable to paste data"
PasteGiveUp ==
    /\ pc = "paste"
    /\ impl = NoImpl
    /\ ret' = Return("Unable to paste data")
    /\ pc' = "done"
    /\ UNCHANGED <<shorteners, pastebins, call, impl, bins, world, attempts, http>>

\* the command down / offline / up
Down ==
    /\ pc = "idle"
    /\ \E text \in PageTexts, t \in PageTransports :
         /\ call' = [op |-> "down", text |-> text]
         /\ http' = Exchange("GET " \o downTarget(text), t)
         /\ ret' = down(text, t)
    /\ pc' = "done"
    /\ UNCHANGED <<shorteners, pastebins, impl, bins, world, attempts>>

\* the command isup
IsUp ==
    /\ pc = "idle"
    /\ \E text \in PageTexts, t \in PageTransports :
         /\ call' = [op |-> "isup", text |-> text]
         /\ http' = Exchange("GET http://isup.me/" \o isupDomain(text), t)
         /\ ret' = isup(text, t)
    /\ pc' = "done"
    /\ UNCHANGED <<shorteners, pastebins, impl, bins, world, attempts>>

Next ==
    \/ RegisterShortener
    \/ RegisterPastebin
    \/ Shorten
    \/ TryShorten
    \/ Expand
    \/ PasteCall
    \/ PasteAttempt
    \/ PasteGiveUp
    \/ Down
    \/ IsUp
    \/ CallReturns

Spec == Init /\ [][Next]_vars

\* The paste path alone: registration of pastebins and paste calls.  A call
\* that has entered paste keeps running (the code is sequential), hence the
\* weak fairness of the loop's steps.
PasteNext ==
    \/ RegisterPastebin
    \/ PasteCall
    \/ PasteAttempt
    \/ PasteGiveUp
    \/ CallReturns

PasteSpec ==
    Init /\ [][PasteNext]_vars /\ WF_vars(PasteAttempt) /\ WF_vars(PasteGiveUp)

-----------------------------------------------------------------------------
(* Properties *)

Sentinel == "Unable to paste data"

Finished(op) == pc = "done" /\ call.op = op

IsServiceError(r) == r.kind = "raise" /\ r.exc = "ServiceError"

\* what backend n's paste does in the current paste call
Would(n) ==
    PasteOf(pastebins[IndexOf(pastebins, n)].cls, call.data, call.ext, world[n])

\* the registered names that are substrings of the url of the current call
Matches == {i \in 1..Len(shorteners) : Contains(call.url, shorteners[i].name)}

\* C1: paste(data, ext, service=X), where X is registered with at least one
\* other backend, X.paste raises ServiceError and some other backend's paste
\* succeeds, returns the URL of a succeeding backend and not the sentinel.
C1_FallbackReturnsUrl ==
    (/\ Finished("paste")
     /\ call.service \in Names(pastebins)
     /\ IsServiceError(Would(call.service))
     /\ \E n \in Names(pastebins) \ {call.service} : Would(n).kind = "return")
    => /\ ret.kind = "return"
       /\ ret.value # Sentinel
       /\ \E n \in Names(pastebins) \ {call.service} : ret = Would(n)

\* C2: paste never raises; when every registered backend's paste fails it
\* returns exactly the sentinel.
C2_PasteNeverRaises ==
    Finished("paste") =>
        /\ ret.kind = "return"
        /\ (\A n \in Names(pastebins) : Would(n).kind = "raise")
              => ret = Return(Sentinel)

\* C3: when the selected backend's shorten raises ServiceError, try_shorten
\* returns the input url unchanged; try_shorten never raises ServiceError.
C3_TryShortenRecovers ==
    Finished("try_shorten") =>
        /\ ~IsServiceError(ret)
        /\ (/\ impl # NoImpl
            /\ IsServiceError(ShortenOf(impl.cls, call.url, call.custom, call.key, http.t)))
              => ret = Return(call.url)

C3_Witness ==
    /\ Finished("try_shorten")
    /\ impl # NoImpl
    /\ IsServiceError(ShortenOf(impl.cls, call.url, call.custom, call.key, http.t))
    /\ ret = Return(call.url)

\* C4 as stated: expand(u) without a service dispatches to backend n for
\* every registered name n that is a substring of u.
C4_DispatchesToEveryMatch ==
    (Finished("expand") /\ ~Truthy(call.service)) =>
        \A i \in Matches : impl = shorteners[i]

\* C4 as amended: expand(u) without a service dispatches to backend n for
\* every registered name n that is a substring of u, provided no name
\* registered before n is a substring of u as well.
C4_DispatchesToEarliestMatch ==
    (Finished("expand") /\ ~Truthy(call.service)) =>
        \A i \in Matches :
            (\A k \in 1..(i - 1) : k \notin Matches) => impl = shorteners[i]

C4_Witness ==
    /\ Finished("expand")
    /\ ~Truthy(call.service)
    /\ Cardinality(Matches) >= 2
    /\ impl.name = "is.gd"
    /\ Contains(call.url, "goo.gl")

\* C5: expand(url) without a service selects the first shortener in
\* registration order whose name is a substring of url; exactly when no
\* registered name is a substring it uses the generic Shortener, whose
\* expand probes the url itself, and no registered backend.
C5_FirstMatchElseGeneric ==
    (Finished("expand") /\ ~Truthy(call.service)) =>
        /\ Matches # {} =>
              \E i \in Matches : /\ \A k \in Matches : i <= k
                                 /\ impl = shorteners[i]
        /\ (Matches = {}) <=> (impl = Entry(None, "Shortener"))
        /\ Matches = {} =>
              /\ impl.name \notin Names(shorteners)
              /\ http.endpoint = "GET " \o call.url
              /\ ret = Shortener_expand(call.url, http.t)

C5_Witness ==
    /\ Finished("expand")
    /\ call.service = None
    /\ Matches = {}
    /\ impl = Entry(None, "Shortener")
    /\ ret.kind = "return"

\* C6: down never raises; a connection failure gives a string containing
\* "down", any received response (whatever its status) one containing "up".
C6_DownClassifiesOnConnection ==
    Finished("down") =>
        /\ ret.kind = "return"
        /\ ~http.t.conn => Contains(ret.value, "down")
        /\ http.t.conn => Contains(ret.value, "up")

\* C7: isup returns "Failed to get status." when the request ends in a
\* connection failure or in a response with a non-2xx status.
C7_IsUpFailedStatus ==
    (/\ Finished("isup")
     /\ \/ ~http.t.conn
        \/ http.t.status < 200
        \/ http.t.status >= 300)
    => ret = Return("Failed to get status.")

\* C8: Gitio.shorten with a custom code and a 201 response whose location
\* does not contain the code fails with ServiceError; it returns only the
\* location, and only when no custom code was asked for or the location
\* contains it.
C8_GitioCustomCode ==
    (Finished("shorten") /\ impl.cls = "Gitio") =>
        /\ (/\ call.custom # None
            /\ http.t.conn
            /\ http.t.status = 201
            /\ http.t.location # None
            /\ ~Contains(http.t.location, call.custom))
              => IsServiceError(ret)
        /\ ret.kind = "return" =>
              /\ http.t.conn
              /\ http.t.status = 201
              /\ ret.value = http.t.location
              /\ call.custom = None \/ Contains(http.t.location, call.custom)

C8_Witness ==
    /\ Finished("shorten")
    /\ impl.cls = "Gitio"
    /\ call.custom = "abc"
    /\ http.t.conn
    /\ http.t.status = 201
    /\ http.t.location = "http://git.io/zzz"
    /\ ret = ServiceError("That URL is already in use")

\* the attempts of a paste call so far respect the bounds of the scan
ScanBounded ==
    call.op = "paste" =>
        /\ \A i, k \in 1..Len(attempts) : attempts[i].name = attempts[k].name => i = k
        /\ \A i \in 1..Len(attempts) : attempts[i].name \in Names(pastebins)
        /\ Len(attempts) <= Len(pastebins)
        /\ attempts # <<>> => attempts[1].name = call.service
        /\ \A i \in 1..(Len(attempts) - 1) : attempts[i].result.kind # "return"

\* C9: the fallback scan terminates and is bounded: the requested backend
\* is attempted first, every backend at most once, never more attempts than
\* registered backends, none after a success, and every paste call ends.
C9_ScanBoundedAndTerminates ==
    /\ []ScanBounded
    /\ (pc = "paste") ~> (pc = "done")

C9_Witness ==
    /\ Finished("paste")
    /\ Len(pastebins) = 3
    /\ Len(attempts) = 3
    /\ attempts[1].name = call.service
    /\ ret = Return(Sentinel)

\* C10: paste with a service name that is not registered attempts no
\* backend and returns the sentinel, even when a registered backend would
\* have succeeded; a second attempt is only made after the requested,
\* registered backend raised ServiceError.
C10_UnknownServiceNoAttempt ==
    Finished("paste") =>
        /\ call.service \notin Names(pastebins) =>
              /\ attempts = <<>>
              /\ ret = Return(Sentinel)
        /\ Len(attempts) >= 2 =>
              /\ call.service \in Names(pastebins)
              /\ attempts[1].name = call.service
              /\ IsServiceError(attempts[1].result)

C10_Witness ==
    /\ Finished("paste")
    /\ call.service \notin Names(pastebins)
    /\ \E n \in Names(pastebins) : Would(n).kind = "return"
    /\ attempts = <<>>
    /\ ret = Return(Sentinel)

====
